---- MODULE Spec2Model ----
(***************************************************************************)
(* Model of the airdrop contract (src/src/lib.rs): the flat-array Merkle   *)
(* whitelist (create_hash_tree, get_hash_proof, check_proof,               *)
(* check_hash_value) and the claim entry point claim_nft.                  *)
(*                                                                         *)
(* Strings are modelled as tagged tuples so that any two of them can be    *)
(* compared: <<"hex", a>> is the upper-case hex text of account a,         *)
(* <<"sha", t>> the SHA-256 hex digest of text t (collision free),         *)
(* <<"cat", x, y>> the concatenation of two digests, <<"raw", k>> any      *)
(* other text.  Rust indices are 0-based; Nth reads a vector at one.       *)
(***************************************************************************)
EXTENDS Integers, Sequences, FiniteSets, TLC

\* the fields of State, the whitelist the contract was initialised with,
\* the Mint events of the accepted calls, and the last call made
VARIABLES next_token_id, taken_indexes, nft_limit, nft_reserve,
          nft_time_limit, merkle_tree, base_url, whitelist, minted, call

vars == <<next_token_id, taken_indexes, nft_limit, nft_reserve,
          nft_time_limit, merkle_tree, base_url, whitelist, minted, call>>

state_vars == <<next_token_id, taken_indexes, nft_limit, nft_reserve,
                nft_time_limit, merkle_tree, base_url, whitelist, minted>>

----------------------------------------------------------------------------
(* Bounds of the model *)

\* longest whitelist of distinct accounts given to the Merkle engine
MaxWhitelist == 16
\* longest whitelist with repeated accounts given to the Merkle engine
MaxDupLen == 3
\* longest short whitelist given to the contract
MaxClaimWhitelist == 2
\* the long whitelist given to the contract (its second level has 5 nodes)
WideWhitelist == 9
\* largest nft_limit and reserve of the contract
MaxLimit == 2
\* iterations of the loop of create_hash_tree whose steps are kept
MaxIterations == 12
\* a list whose padded leaf level is wider than a byte
LongList == 300
\* a list whose first level transition makes more parents than a byte holds
HugeList == 511

\* accounts that call the contract, token ids they select, slot times
\* (account 0 is on no whitelist)
Accounts == {0, 1, 2, 3}
SelectedTokens == {0, 1}
TimeLimits == {0, 1}
SlotTimes == {1, 2}

----------------------------------------------------------------------------
(* Rust values *)

U8Max == 255

None == [some |-> FALSE]
Some(x) == [some |-> TRUE, val |-> x]

Nth(v, i) == v[i + 1]
Last(v) == v[Len(v)]

\* text of an account address: two upper-case hex digits per byte
Hex(addr) == <<"hex", addr>>
\* sha256::digest of a text
digest(text) == <<"sha", text>>
\* a.clone() + &b
Concat(a, b) == <<"cat", a, b>>

\* the leaf of an account: digest of its hex text
Claimer(node) == digest(Hex(node))

Panic == [kind |-> "Panic"]

\* String::new(), and the base_url given to init
NewString == <<"raw", 2>>
BaseUrl == <<"raw", 1>>

----------------------------------------------------------------------------
(* create_hash_tree *)

\* mutant of StepValue: the number of parents, never widened
StepValue_plain(n) == n

\* mutant of StepValue: always widened by one
StepValue_wide(n) == n + 1

\* the step recorded for a transition that produced n parents
StepValue(n) == IF n \div 2 = 1 THEN n + 1 ELSE n

\* mutant of PadBuffer: the buffer is never padded
PadBuffer_never(working_vec, working_node_total) == working_vec

\* "make sure tree is even": pads the buffer when the running total is odd
PadBuffer(working_vec, working_node_total) ==
  IF working_node_total % 2 = 1
  THEN Append(working_vec, Last(working_vec))
  ELSE working_vec

\* the pairing loop over (startpoint..working_vec.len()).step_by(2)
PairUp(working_vec, startpoint) ==
  [k \in 1..((Len(working_vec) - startpoint + 1) \div 2) |->
      digest(Concat(Nth(working_vec, startpoint + 2 * (k - 1)),
                    Nth(working_vec, startpoint + 2 * (k - 1) + 1)))]

RECURSIVE BuildLoop(_, _, _, _, _)
BuildLoop(working_vec, working_node_total, startpoint, steps, initial_length) ==
  LET padded == PadBuffer(working_vec, working_node_total)
  IN IF (Len(padded) - startpoint) % 2 = 1
     THEN Panic      \* working_vec[index + 1] out of bounds
     ELSE LET vec_to_add == PairUp(padded, startpoint)
              appended == padded \o vec_to_add
              step == StepValue(Len(vec_to_add))
          IN IF step > U8Max
             THEN Panic   \* try_into().unwrap() of a step that is no u8
             ELSE IF Len(vec_to_add) = 1
                  THEN [kind |-> "Done",
                        tree |-> [length |-> initial_length % (U8Max + 1),
                                  hashroot |-> Last(appended),
                                  steps |-> Append(steps, step),
                                  hash_tree |-> appended]]
                  ELSE BuildLoop(appended, Len(appended), Len(padded),
                                 Append(steps, step), initial_length)

\* mutant of create_hash_tree: the leaf level is not padded before the loop
create_hash_tree_unpadded(nodes) ==
  IF nodes = <<>>
  THEN [kind |-> "Diverges"]
  ELSE LET hashed == [i \in 1..Len(nodes) |-> digest(nodes[i])]
       IN BuildLoop(hashed, Len(hashed), 0, <<>>, Len(hashed))

\* State::create_hash_tree; an empty list never leaves the loop
create_hash_tree(nodes) ==
  IF nodes = <<>>
  THEN [kind |-> "Diverges"]
  ELSE LET hashed == [i \in 1..Len(nodes) |-> digest(nodes[i])]
           working_vec == IF Len(hashed) % 2 = 1
                          THEN Append(hashed, Last(hashed))
                          ELSE hashed
       IN BuildLoop(working_vec, Len(working_vec), 0, <<>>, Len(working_vec))

----------------------------------------------------------------------------
(* get_hash_proof, check_hash_value, check_proof *)

\* mutant of ParentOf: hashes the pair right-then-left
ParentOf_swapped(nodes, startpoint, index) ==
  IF index % 2 = 1
  THEN digest(Concat(Nth(nodes, startpoint + index),
                     Nth(nodes, startpoint + index - 1)))
  ELSE digest(Concat(Nth(nodes, startpoint + index + 1),
                     Nth(nodes, startpoint + index)))

\* the parent of the node found at offset index of the window
ParentOf(nodes, startpoint, index) ==
  IF index % 2 = 1
  THEN digest(Concat(Nth(nodes, startpoint + index - 1),
                     Nth(nodes, startpoint + index)))
  ELSE digest(Concat(Nth(nodes, startpoint + index),
                     Nth(nodes, startpoint + index + 1)))

\* whether computing the parent reads outside the vector
ParentReadOutside(nodes, startpoint, index) ==
  index % 2 = 0 /\ startpoint + index + 1 >= Len(nodes)

RECURSIVE ProofLoop(_, _, _, _, _, _, _)
ProofLoop(tree, hunted, startpoint, end_point, step_number, index, proof) ==
  IF ~(startpoint + index < end_point)
  THEN [kind |-> "None"]
  ELSE IF hunted = tree.hashroot
  THEN [kind |-> "Some", proof |-> Append(proof, hunted)]
  ELSE IF startpoint + index >= Len(tree.hash_tree)
  THEN Panic
  ELSE IF Nth(tree.hash_tree, startpoint + index) = hunted
  THEN IF ParentReadOutside(tree.hash_tree, startpoint, index)
          \/ step_number >= Len(tree.steps)
       THEN Panic
       ELSE ProofLoop(tree, ParentOf(tree.hash_tree, startpoint, index),
                      end_point, end_point + Nth(tree.steps, step_number),
                      step_number + 1, 0, Append(proof, hunted))
  ELSE ProofLoop(tree, hunted, startpoint, end_point, step_number,
                 index + 1, proof)

\* mutant of get_hash_proof: the first scan covers the whole vector
get_hash_proof_whole(mt, test) ==
  IF ~mt.some
  THEN [kind |-> "None"]
  ELSE ProofLoop(mt.val, test, 0, Len(mt.val.hash_tree), 0, 0, <<>>)

\* State::get_hash_proof on the state's merkle_tree
get_hash_proof(mt, test) ==
  IF ~mt.some
  THEN [kind |-> "None"]
  ELSE ProofLoop(mt.val, test, 0, mt.val.length, 0, 0, <<>>)

RECURSIVE CheckLoop(_, _, _, _, _, _)
CheckLoop(tree, hunted, startpoint, end_point, step_number, index) ==
  IF ~(startpoint + index < end_point)
  THEN [kind |-> "Ret", val |-> FALSE]
  ELSE IF hunted = tree.hashroot
  THEN [kind |-> "Ret", val |-> TRUE]
  ELSE IF startpoint + index >= Len(tree.hash_tree)
  THEN Panic
  ELSE IF Nth(tree.hash_tree, startpoint + index) = hunted
  THEN IF ParentReadOutside(tree.hash_tree, startpoint, index)
          \/ step_number >= Len(tree.steps)
       THEN Panic
       ELSE CheckLoop(tree, ParentOf(tree.hash_tree, startpoint, index),
                      end_point, end_point + Nth(tree.steps, step_number),
                      step_number + 1, 0)
  ELSE CheckLoop(tree, hunted, startpoint, end_point, step_number, index + 1)

\* State::check_hash_value
check_hash_value(mt, test_address) ==
  IF ~mt.some
  THEN [kind |-> "Ret", val |-> FALSE]
  ELSE CheckLoop(mt.val, test_address, 0, mt.val.length, 0, 0)

\* mutant of check_proof: compares the roots of the two proofs only
check_proof_roots(mt, node, proof) ==
  LET master_proof == get_hash_proof(mt, Claimer(node))
  IN IF master_proof.kind # "Some"
     THEN Panic
     ELSE [kind |-> "Ret",
           val |-> (proof # <<>> /\ Last(master_proof.proof) = Last(proof))]

\* State::check_proof: unwraps the canonical proof and compares
check_proof(mt, node, proof) ==
  LET master_proof == get_hash_proof(mt, Claimer(node))
  IN IF master_proof.kind # "Some"
     THEN Panic
     ELSE [kind |-> "Ret", val |-> (master_proof.proof = proof)]

----------------------------------------------------------------------------
(* init *)

\* the whitelist texts and the optional tree built from them
WhitelistTexts(accounts) == [i \in 1..Len(accounts) |-> Hex(accounts[i])]

InitTree(accounts) ==
  IF accounts # <<>>
  THEN Some(create_hash_tree(WhitelistTexts(accounts)).tree)
  ELSE None

\* nft_time_limit and nft_reserve are kept only when non-zero
NonZero(x) == IF x # 0 THEN Some(x) ELSE None

EmptyMap == <<>>

\* no call is being answered
Idle == [op |-> "none"]

InitWith(accounts, limit, time_limit, reserve, selected_index) ==
  /\ next_token_id = 0
  /\ nft_limit = limit
  /\ nft_time_limit = NonZero(time_limit)
  /\ nft_reserve = NonZero(reserve)
  /\ taken_indexes = IF selected_index THEN Some(EmptyMap) ELSE None
  /\ merkle_tree = InitTree(accounts)
  /\ base_url = BaseUrl
  /\ whitelist = accounts
  /\ minted = <<>>
  /\ call = Idle

Distinct(n) == [i \in 1..n |-> i]

ClaimWhitelists == {Distinct(n) : n \in (0..MaxClaimWhitelist) \cup {WideWhitelist}}

Init ==
  \E accounts \in ClaimWhitelists, limit \in 0..MaxLimit,
     time_limit \in TimeLimits, reserve \in 0..MaxLimit,
     selected_index \in BOOLEAN :
       InitWith(accounts, limit, time_limit, reserve, selected_index)

----------------------------------------------------------------------------
(* claim_nft *)

\* u32 has 32 bits: 2^32 = HalfWord * HalfWord
HalfWord == 65536

State == [next_token_id |-> next_token_id, taken_indexes |-> taken_indexes,
          nft_limit |-> nft_limit, nft_reserve |-> nft_reserve,
          nft_time_limit |-> nft_time_limit, merkle_tree |-> merkle_tree,
          base_url |-> base_url]

\* mutant of AirdropClosed: closes at the limit itself
AirdropClosed_at_limit(time_limit, slot_time) ==
  time_limit.some /\ time_limit.val > 0 /\ slot_time >= time_limit.val

\* the time window check
AirdropClosed(time_limit, slot_time) ==
  time_limit.some /\ time_limit.val > 0 /\ slot_time > time_limit.val

\* mutant of LimitReached: stops one token late
LimitReached_late(current_token_id, limit) == current_token_id > limit

\* the supply check
LimitReached(current_token_id, limit) == current_token_id = limit

\* nft_limit - nft_reserve.unwrap_or(0) in u32: below zero the build either
\* panics (overflow checks on) or wraps (overflow checks off)
ReserveStart(limit, reserve) ==
  LET r == IF reserve.some THEN reserve.val ELSE 0
  IN IF limit - r >= 0
     THEN {[panic |-> FALSE, wraps |-> FALSE, val |-> limit - r]}
     ELSE {[panic |-> TRUE, wraps |-> FALSE, val |-> limit - r],
           [panic |-> FALSE, wraps |-> TRUE, val |-> limit - r]}

\* x >= start, where a wrapped start stands for start.val + 2^32
AtOrAfter(x, start) ==
  IF start.wraps
  THEN (x - start.val) \div HalfWord >= HalfWord
  ELSE x >= start.val

\* whether the claim is in a phase where only the whitelist may claim
WhitelistOnly(s, start) ==
  \/ (s.merkle_tree.some /\ ~s.nft_reserve.some)
  \/ (s.merkle_tree.some /\ AtOrAfter(s.next_token_id, start))

\* what the proof check says once the whitelist is enforced
ProofVerdict(s, node, proof) ==
  IF proof = <<>>
  THEN "reject"
  ELSE LET checked == check_proof(s.merkle_tree, node, proof)
       IN IF checked.kind = "Panic" THEN "trap"
          ELSE IF ~checked.val THEN "reject" ELSE "pass"

\* mutant of WhitelistGate: forgets to ask whether there is a tree
WhitelistGate_no_tree_check(s, node, proof) ==
  IF ~s.nft_reserve.some
  THEN {ProofVerdict(s, node, proof)}
  ELSE {IF start.panic THEN "trap"
        ELSE IF AtOrAfter(s.next_token_id, start)
             THEN ProofVerdict(s, node, proof)
             ELSE "pass" : start \in ReserveStart(s.nft_limit, s.nft_reserve)}

\* the whole whitelist condition: the set of its possible verdicts
WhitelistGate(s, node, proof) ==
  IF s.merkle_tree.some /\ ~s.nft_reserve.some
  THEN {ProofVerdict(s, node, proof)}
  ELSE IF ~s.merkle_tree.some
  THEN {"pass"}
  ELSE {IF start.panic THEN "trap"
        ELSE IF WhitelistOnly(s, start)
             THEN ProofVerdict(s, node, proof)
             ELSE "pass" : start \in ReserveStart(s.nft_limit, s.nft_reserve)}

\* the token id the claim is about
TokenIdToUse(s, selected_token) ==
  IF s.taken_indexes.some THEN selected_token ELSE s.next_token_id

\* mutant of IndexTaken: looks up the sequential id, not the selected one
IndexTaken_next_id(s, selected_token) ==
  s.taken_indexes.some /\ s.next_token_id \in DOMAIN s.taken_indexes.val

\* whether the selected token already has an owner
IndexTaken(s, selected_token) ==
  s.taken_indexes.some /\ selected_token \in DOMAIN s.taken_indexes.val

Insert(map, key, value) ==
  [k \in DOMAIN map \cup {key} |-> IF k = key THEN value ELSE map[k]]

\* mutant of Mint: the update also drops the tree
Mint_drops_tree(s, token_id, claimer) ==
  IF s.taken_indexes.some
  THEN [s EXCEPT !.taken_indexes = Some(Insert(s.taken_indexes.val, token_id, claimer)),
                 !.merkle_tree = None]
  ELSE [s EXCEPT !.next_token_id = s.next_token_id + 1, !.merkle_tree = None]

\* the state change of a claim that passed every check
Mint(s, token_id, claimer) ==
  IF s.taken_indexes.some
  THEN [s EXCEPT !.taken_indexes = Some(Insert(s.taken_indexes.val, token_id, claimer))]
  ELSE [s EXCEPT !.next_token_id = s.next_token_id + 1]

LogResults == {"Ok", "Full", "Malformed"}

Outcome(result, s, log_mint, log_meta) ==
  [result |-> result, state |-> s, log_mint |-> log_mint, log_meta |-> log_meta]

\* mutant of LogAndMint: the state is updated before the events are logged
LogAndMint_update_first(s, node, selected_token) ==
  LET updated == Mint(s, TokenIdToUse(s, selected_token), node)
  IN {Outcome("MintingLogFull", updated, "Full", "NotCalled"),
      Outcome("MintingLogMalformed", updated, "Malformed", "NotCalled"),
      Outcome("MetaDataLogFull", updated, "Ok", "Full"),
      Outcome("MetaDataLogMalformed", updated, "Ok", "Malformed"),
      Outcome("Ok", updated, "Ok", "Ok")}

\* the two logger calls and the final update
LogAndMint(s, node, selected_token) ==
  {Outcome("MintingLogFull", s, "Full", "NotCalled"),
   Outcome("MintingLogMalformed", s, "Malformed", "NotCalled"),
   Outcome("MetaDataLogFull", s, "Ok", "Full"),
   Outcome("MetaDataLogMalformed", s, "Ok", "Malformed"),
   Outcome("Ok", Mint(s, TokenIdToUse(s, selected_token), node), "Ok", "Ok")}

\* the Mint event a call logs: the token and its owner
MintEvent(s, node, selected_token) ==
  [token_id |-> TokenIdToUse(s, selected_token), owner |-> node]

\* claim_nft: the set of outcomes of one call in state s
claim_nft(s, slot_time, proof, node, selected_token) ==
  IF AirdropClosed(s.nft_time_limit, slot_time)
  THEN {Outcome("AirdropNowClosed", s, "NotCalled", "NotCalled")}
  ELSE IF LimitReached(s.next_token_id, s.nft_limit)
  THEN {Outcome("NFTLimitReached", s, "NotCalled", "NotCalled")}
  ELSE UNION {
    IF verdict = "trap"
    THEN {Outcome("Trap", s, "NotCalled", "NotCalled")}
    ELSE IF verdict = "reject"
    THEN {Outcome("AddressNotOnWhitelist", s, "NotCalled", "NotCalled")}
    ELSE IF IndexTaken(s, selected_token)
    THEN {Outcome("IndexAlreadyClaimed", s, "NotCalled", "NotCalled")}
    ELSE LogAndMint(s, node, selected_token)
    : verdict \in WhitelistGate(s, node, proof)}

\* the canonical proofs the tree gives for the leaves of accounts
CanonicalProofs(mt, accounts) ==
  {get_hash_proof(mt, Claimer(a)).proof :
     a \in {b \in accounts : get_hash_proof(mt, Claimer(b)).kind = "Some"}}

\* The proof a whitelisted account works out by hand from the whitelist, as
\* the unit tests do: its leaf, then the digest of each sibling pair above
\* it, an odd level completed with a copy of its last node.
EvenLevel(level) ==
  IF Len(level) % 2 = 1 THEN Append(level, Last(level)) ELSE level

RECURSIVE PathFrom(_, _)
PathFrom(level, pos) ==
  IF Len(level) = 1
  THEN level
  ELSE LET even == EvenLevel(level)
           above == [k \in 1..(Len(even) \div 2) |->
                       digest(Concat(even[2 * k - 1], even[2 * k]))]
       IN <<even[pos + 1]>> \o PathFrom(above, pos \div 2)

RECURSIVE LevelsFrom(_)
\* the levels of the tree over a level, from that level up to the root,
\* as the comment of create_hash_tree draws them
LevelsFrom(level) ==
  IF Len(level) = 1
  THEN <<level>>
  ELSE LET even == EvenLevel(level)
       IN <<even>> \o LevelsFrom([k \in 1..(Len(even) \div 2) |->
                                    digest(Concat(even[2 * k - 1], even[2 * k]))])

\* the leaf level is completed even when it has a single leaf
TreeLevels(accounts) ==
  LevelsFrom(EvenLevel([i \in 1..Len(accounts) |-> Claimer(accounts[i])]))

\* the digests of the sibling pairs of a level that contain node
PairDigests(level, node) ==
  {digest(Concat(level[2 * k - 1], level[2 * k])) :
     k \in {j \in 1..(Len(level) \div 2) : node \in {level[2 * j - 1], level[2 * j]}}}

MerklePath(accounts, a) ==
  LET leaves == EvenLevel([i \in 1..Len(accounts) |-> Claimer(accounts[i])])
      first == CHOOSE i \in 1..Len(accounts) :
                 accounts[i] = a /\ \A j \in 1..(i - 1) : accounts[j] # a
  IN <<leaves[first]>>
       \o PathFrom([k \in 1..(Len(leaves) \div 2) |->
                      digest(Concat(leaves[2 * k - 1], leaves[2 * k]))],
                   (first - 1) \div 2)

\* the proofs callers submit: none, the canonical proof of an account, the
\* hand-made proof of a whitelisted account, the bare leaf of an account
ClaimProofs(mt, accounts) ==
  {<<>>} \cup CanonicalProofs(mt, Accounts)
    \cup {MerklePath(accounts, a) : a \in {b \in Accounts : \E i \in DOMAIN accounts : accounts[i] = b}}
    \cup {<<Claimer(a)>> : a \in Accounts}

ClaimNft ==
  /\ call = Idle
  /\ \E slot_time \in SlotTimes, node \in Accounts,
     selected_token \in SelectedTokens, proof \in ClaimProofs(merkle_tree, whitelist) :
      \E out \in claim_nft(State, slot_time, proof, node, selected_token) :
        /\ next_token_id' = out.state.next_token_id
        /\ taken_indexes' = out.state.taken_indexes
        /\ nft_limit' = out.state.nft_limit
        /\ nft_reserve' = out.state.nft_reserve
        /\ nft_time_limit' = out.state.nft_time_limit
        /\ merkle_tree' = out.state.merkle_tree
        /\ base_url' = out.state.base_url
        /\ minted' = IF out.result = "Ok"
                     THEN Append(minted, MintEvent(State, node, selected_token))
                     ELSE minted
        /\ call' = [op |-> "claim_nft", slot_time |-> slot_time, node |-> node,
                    selected_token |-> selected_token, proof |-> proof,
                    log_mint |-> out.log_mint, log_meta |-> out.log_meta,
                    result |-> out.result, before |-> State]
        /\ UNCHANGED whitelist

\* the host hands the answer to the caller; the next call may start
Return ==
  /\ call # Idle
  /\ call' = Idle
  /\ UNCHANGED state_vars

----------------------------------------------------------------------------
(* The view entry points *)

\* token ids asked about: the selectable ones and one nobody can select
OwnerQueries == SelectedTokens \cup {2}

\* view: the claimed tokens, empty in sequential mode
view(s) ==
  [claimed_tokens |-> IF s.taken_indexes.some THEN s.taken_indexes.val ELSE EmptyMap]

\* total_supply
total_supply(s) == s.nft_limit

\* the number of claimed tokens current_supply subtracts
CurrentClaimed(s) ==
  IF s.taken_indexes.some
  THEN Cardinality(DOMAIN s.taken_indexes.val)
  ELSE s.next_token_id

\* current_supply: nft_limit - current_claimed in u32; below zero the build
\* either panics or wraps, val then standing for val + 2^32
current_supply(s) ==
  LET left == s.nft_limit - CurrentClaimed(s)
  IN IF left >= 0
     THEN {[kind |-> "Ret", val |-> left, wraps |-> FALSE]}
     ELSE {Panic, [kind |-> "Ret", val |-> left, wraps |-> TRUE]}

\* check_owner
check_owner(s, params) ==
  IF ~s.taken_indexes.some
  THEN [address |-> None]
  ELSE IF params \notin DOMAIN s.taken_indexes.val
  THEN [address |-> None]
  ELSE [address |-> Some(s.taken_indexes.val[params])]

View ==
  /\ call = Idle
  /\ call' = [op |-> "view", result |-> view(State)]
  /\ UNCHANGED state_vars

TotalSupply ==
  /\ call = Idle
  /\ call' = [op |-> "total_supply", result |-> total_supply(State)]
  /\ UNCHANGED state_vars

CurrentSupply ==
  /\ call = Idle
  /\ \E out \in current_supply(State) :
       call' = [op |-> "current_supply", result |-> out]
  /\ UNCHANGED state_vars

CheckOwner ==
  /\ call = Idle
  /\ \E params \in OwnerQueries :
       call' = [op |-> "check_owner", params |-> params,
                result |-> check_owner(State, params)]
  /\ UNCHANGED state_vars

Next == ClaimNft \/ View \/ TotalSupply \/ CurrentSupply \/ CheckOwner \/ Return

Spec == Init /\ [][Next]_vars

----------------------------------------------------------------------------
(* The Merkle engine on its own: the methods of State called on the state *)
(* init leaves behind, as the unit tests call them                        *)

EngineAccounts == 1..(MaxWhitelist + 1)

EngineWhitelists ==
  {Distinct(n) : n \in (1..MaxWhitelist) \cup {LongList}}
    \cup UNION {[1..n -> {1, 2}] : n \in 1..MaxDupLen}

EngineInit ==
  \E accounts \in EngineWhitelists : InitWith(accounts, 1, 0, 0, FALSE)

\* texts that are no node of any tree
Junk == {<<"raw", 0>>}

Range(f) == {f[i] : i \in DOMAIN f}

\* the values looked up: leaves of accounts, their bare hex texts, every
\* node of the tree, a text that is no digest
TestValues(mt) ==
  {Claimer(a) : a \in EngineAccounts} \cup {Hex(a) : a \in EngineAccounts}
    \cup (IF mt.some THEN Range(mt.val.hash_tree) ELSE {}) \cup Junk

\* a proof with one hash changed, cut short, or extended
Mutations(p, hashes) ==
  {[p EXCEPT ![i] = h] : i \in DOMAIN p, h \in hashes}
    \cup {SubSeq(p, 1, k) : k \in 0..Len(p)}
    \cup {Append(p, h) : h \in hashes}

\* the hashes a forged proof is made of
ForgeValues(mt) == {mt.val.hashroot, Claimer(1), Nth(mt.val.hash_tree, 1)} \cup Junk

SubmittedProofs(mt) ==
  LET canonical == CanonicalProofs(mt, EngineAccounts)
  IN {<<>>, <<Claimer(1)>>} \cup canonical
       \cup UNION {Mutations(p, ForgeValues(mt)) : p \in canonical}

GetHashProof ==
  /\ call = Idle
  /\ \E test \in TestValues(merkle_tree) :
       call' = [op |-> "get_hash_proof", test |-> test,
                result |-> get_hash_proof(merkle_tree, test)]
  /\ UNCHANGED state_vars

CheckHashValue ==
  /\ call = Idle
  /\ \E test \in TestValues(merkle_tree) :
       call' = [op |-> "check_hash_value", test |-> test,
                result |-> check_hash_value(merkle_tree, test)]
  /\ UNCHANGED state_vars

CheckProof ==
  /\ call = Idle
  /\ \E node \in EngineAccounts, proof \in SubmittedProofs(merkle_tree) :
       call' = [op |-> "check_proof", node |-> node, proof |-> proof,
                result |-> check_proof(merkle_tree, node, proof)]
  /\ UNCHANGED state_vars

EngineNext == GetHashProof \/ CheckHashValue \/ CheckProof \/ Return

EngineSpec == EngineInit /\ [][EngineNext]_vars

----------------------------------------------------------------------------
(* create_hash_tree run one loop iteration at a time on State::empty(); *)
(* call holds the local variables of the run                             *)

\* the lists a tree is built from: none, distinct accounts, repeated
\* ones, and two lists too long for the byte-wide fields
BuildWhitelists ==
  {Distinct(n) : n \in (0..MaxWhitelist) \cup {LongList, HugeList}}
    \cup UNION {[1..n -> {1, 2, 3}] : n \in 1..MaxDupLen}

\* the local variables when the loop is entered
EnterLoop(nodes) ==
  LET hashed == [i \in 1..Len(nodes) |-> digest(nodes[i])]
      working_vec == IF Len(hashed) % 2 = 1
                     THEN Append(hashed, Last(hashed))
                     ELSE hashed
  IN [op |-> "create_hash_tree", nodes |-> nodes,
      working_vec |-> working_vec, working_node_total |-> Len(working_vec),
      steps |-> <<>>, initial_length |-> Len(working_vec), startpoint |-> 0,
      level_starts |-> <<0>>, turn |-> 0, status |-> "Loop"]

BuildInit ==
  \E accounts \in BuildWhitelists :
    /\ next_token_id = 0
    /\ nft_limit = 1
    /\ merkle_tree = None
    /\ nft_time_limit = None
    /\ nft_reserve = None
    /\ taken_indexes = None
    /\ base_url = NewString
    /\ whitelist = accounts
    /\ minted = <<>>
    /\ call = EnterLoop(WhitelistTexts(accounts))

\* mutant of LoopBody: an odd total is padded with the first hash of the
\* level, not the last
LoopBody_pads_first(l) ==
  LET padded == IF l.working_node_total % 2 = 1
                THEN Append(l.working_vec, Nth(l.working_vec, l.startpoint))
                ELSE l.working_vec
  IN IF (Len(padded) - l.startpoint) % 2 = 1
     THEN [l EXCEPT !.status = "Panic"]
     ELSE LET vec_to_add == PairUp(padded, l.startpoint)
              step == StepValue(Len(vec_to_add))
          IN IF step > U8Max
             THEN [l EXCEPT !.status = "Panic"]
             ELSE [l EXCEPT !.working_vec = padded \o vec_to_add,
                            !.working_node_total = Len(padded) + Len(vec_to_add),
                            !.startpoint = Len(padded),
                            !.level_starts = Append(l.level_starts, Len(padded)),
                            !.steps = Append(l.steps, step),
                            !.status = IF Len(vec_to_add) = 1 THEN "Returned" ELSE "Loop"]

\* one iteration of the loop on the local variables l; level_starts keeps
\* every value startpoint takes: the index at which each level begins
LoopBody(l) ==
  LET padded == PadBuffer(l.working_vec, l.working_node_total)
  IN IF (Len(padded) - l.startpoint) % 2 = 1
     THEN [l EXCEPT !.status = "Panic"]
     ELSE LET vec_to_add == PairUp(padded, l.startpoint)
              step == StepValue(Len(vec_to_add))
          IN IF step > U8Max
             THEN [l EXCEPT !.status = "Panic"]
             ELSE [l EXCEPT !.working_vec = padded \o vec_to_add,
                            !.working_node_total = Len(padded) + Len(vec_to_add),
                            !.startpoint = Len(padded),
                            !.level_starts = Append(l.level_starts, Len(padded)),
                            !.steps = Append(l.steps, step),
                            !.status = IF Len(vec_to_add) = 1 THEN "Returned" ELSE "Loop"]

\* mutant of BuiltTree: length keeps the whole leaf count
BuiltTree_wide(l) ==
  [length |-> l.initial_length, hashroot |-> Last(l.working_vec),
   steps |-> l.steps, hash_tree |-> l.working_vec]

\* the tree the function stores when it returns
BuiltTree(l) ==
  [length |-> l.initial_length % (U8Max + 1), hashroot |-> Last(l.working_vec),
   steps |-> l.steps, hash_tree |-> l.working_vec]

\* a run that goes on after MaxIterations iterations: only the first
\* MaxIterations steps are kept, and the parity of the iteration count
Bounded(l) ==
  [l EXCEPT !.steps = SubSeq(l.steps, 1, IF Len(l.steps) < MaxIterations
                                          THEN Len(l.steps) ELSE MaxIterations),
            !.level_starts = SubSeq(l.level_starts, 1,
                                    IF Len(l.level_starts) < MaxIterations + 1
                                    THEN Len(l.level_starts) ELSE MaxIterations + 1),
            !.turn = 1 - l.turn]

\* one iteration of the loop
LoopIteration ==
  /\ call.op = "create_hash_tree"
  /\ call.status = "Loop"
  /\ call' = Bounded(LoopBody(call))
  /\ merkle_tree' = IF call'.status = "Returned"
                    THEN Some(BuiltTree(call'))
                    ELSE merkle_tree
  /\ UNCHANGED <<next_token_id, taken_indexes, nft_limit, nft_reserve,
                 nft_time_limit, base_url, whitelist, minted>>

BuildNext == LoopIteration

BuildSpec == BuildInit /\ [][BuildNext]_vars

\* the loop keeps running: nothing suspends it
FairBuildSpec == BuildSpec /\ WF_vars(LoopIteration)

----------------------------------------------------------------------------
(* Every call there is: the entry points of the contract and the public   *)
(* methods of State, on every state the contract reaches                  *)

PublicNext == Next \/ GetHashProof \/ CheckHashValue \/ CheckProof

PublicSpec == Init /\ [][PublicNext]_vars

----------------------------------------------------------------------------
(* Properties of the Merkle engine (EngineSpec) *)

Ret(b) == [kind |-> "Ret", val |-> b]

\* the leaf level of the tree, padding included
PaddedLeaves(mt) == {Nth(mt.val.hash_tree, i) : i \in 0..(mt.val.length - 1)}

Committed(node) == node \in Range(whitelist)

\* C1: get_hash_proof succeeds for every leaf of the padded leaf level,
\* and the proof it returns ends with the root
C1_Completeness ==
  (call.op = "get_hash_proof" /\ call.test \in PaddedLeaves(merkle_tree))
    => /\ call.result.kind = "Some"
       /\ Last(call.result.proof) = merkle_tree.val.hashroot

\* C2: for every account of the whitelist get_hash_proof returns a proof,
\* and check_proof accepts that proof from that account
C2_RoundTrip ==
  (call.op = "check_proof" /\ Committed(call.node))
    => LET canonical == get_hash_proof(merkle_tree, Claimer(call.node))
       IN /\ canonical.kind = "Some"
          /\ call.proof = canonical.proof => call.result = Ret(TRUE)

\* C3: check_proof answers false, and does not panic, for an account whose
\* leaf is not in the tree, whatever proof is submitted
C3_OutsiderIsFalse ==
  (call.op = "check_proof" /\ Claimer(call.node) \notin Range(merkle_tree.val.hash_tree))
    => call.result = Ret(FALSE)

\* C4: for an account of the whitelist check_proof answers true only for
\* the canonical proof of that account, and answers false for every other
\* proof (one hash changed, cut short, extended, another account's proof)
C4_Soundness ==
  (call.op = "check_proof" /\ Committed(call.node))
    => LET canonical == get_hash_proof(merkle_tree, Claimer(call.node))
       IN /\ call.result = Ret(TRUE)
               => (canonical.kind = "Some" /\ call.proof = canonical.proof)
          /\ (canonical.kind = "Some" /\ call.proof # canonical.proof)
               => call.result = Ret(FALSE)

\* C4 witness: a canonical proof with one hash changed, submitted by its
\* owner, was answered false
C4_Witness ==
  /\ call.op = "check_proof"
  /\ Committed(call.node)
  /\ LET canonical == get_hash_proof(merkle_tree, Claimer(call.node))
     IN /\ canonical.kind = "Some"
        /\ Len(call.proof) = Len(canonical.proof)
        /\ Len(call.proof) >= 3
        /\ Cardinality({i \in DOMAIN call.proof : call.proof[i] # canonical.proof[i]}) = 1
  /\ call.result = Ret(FALSE)

\* the number of level advances of a traversal that found the root: every
\* advance pushes one hash, and so does the final comparison with the root
LevelAdvances(result) == Len(result.proof) - 1

\* a look-up of the leaf of the only account of a whitelist of one
SingleIdentityLookup ==
  /\ Len(whitelist) = 1
  /\ call.op = "get_hash_proof"
  /\ call.test = Claimer(whitelist[1])

\* C13 as stated: in a tree of one identity the leaf is stored twice, and
\* get_hash_proof of the leaf finds it equal to the root in the first scan,
\* without any level advance
C13_SingleIdentity ==
  SingleIdentityLookup
    => /\ merkle_tree.val.length = 2
       /\ Nth(merkle_tree.val.hash_tree, 0) = call.test
       /\ Nth(merkle_tree.val.hash_tree, 1) = call.test
       /\ call.test = merkle_tree.val.hashroot
       /\ call.result.kind = "Some"
       /\ LevelAdvances(call.result) = 0

\* C13 amended: in a tree of one identity the leaf l is stored twice and
\* the root is the digest of l followed by l; get_hash_proof of l finds l
\* in the first scan, advances one level and returns [l, root]
C13_SingleIdentityOneAdvance ==
  SingleIdentityLookup
    => LET l == call.test
           root == digest(Concat(l, l))
       IN /\ merkle_tree.val = [length |-> 2, hash_tree |-> <<l, l, root>>,
                                hashroot |-> root, steps |-> <<1>>]
          /\ call.result = [kind |-> "Some", proof |-> <<l, root>>]
          /\ LevelAdvances(call.result) = 1

\* C13 witness: the leaf of a whitelist of one was looked up and found
C13_Witness ==
  SingleIdentityLookup /\ call.result.kind = "Some" /\ Len(call.result.proof) = 2

IsLookup == call.op \in {"get_hash_proof", "check_hash_value"}

\* the answer of a look-up that found nothing
NotFound ==
  IF call.op = "get_hash_proof"
  THEN call.result.kind = "None"
  ELSE call.result = Ret(FALSE)

LeafProved ==
  /\ call.op = "get_hash_proof"
  /\ call.test \in PaddedLeaves(merkle_tree)
  /\ call.result.kind = "Some"

\* C20: a proof returned for a leaf starts with the leaf, each following
\* element is the digest, left then right, of the sibling pair of the level
\* below that contains the element before it, the last element is the
\* root and there are as many elements as the tree has levels; for three
\* identities the proof of H1 is [H1, hash(H1 H2), hash(hash(H1 H2) hash(H3 H3))]
C20_ProofShape ==
  /\ LeafProved
       => LET proof == call.result.proof
              levels == TreeLevels(whitelist)
          IN /\ proof[1] = call.test
             /\ Last(proof) = merkle_tree.val.hashroot
             /\ Len(proof) = Len(levels)
             /\ Len(proof) = Len(merkle_tree.val.steps) + 1
             /\ \A i \in 1..(Len(proof) - 1) :
                   proof[i + 1] \in PairDigests(levels[i], proof[i])
             /\ \E a \in Range(whitelist) :
                   call.test = Claimer(a) /\ proof = MerklePath(whitelist, a)
  /\ (whitelist = <<1, 2, 3>> /\ call.op = "get_hash_proof" /\ call.test = Claimer(1))
       => LET H12 == digest(Concat(Claimer(1), Claimer(2)))
              H33 == digest(Concat(Claimer(3), Claimer(3)))
          IN call.result = [kind |-> "Some",
                            proof |-> <<Claimer(1), H12, digest(Concat(H12, H33))>>]

\* C20 witness: a proof of four levels was returned for a leaf stored at
\* an odd index
C20_Witness ==
  /\ LeafProved
  /\ Len(whitelist) >= 2 /\ call.test = Claimer(whitelist[2])
  /\ call.test # Claimer(whitelist[1])
  /\ Len(call.result.proof) >= 4

\* C24: on a tree built from a non-empty list get_hash_proof and
\* check_hash_value never read hash_tree or steps outside their bounds,
\* whatever value is looked up, and every run returns a result
C24_TraversalInBounds ==
  (IsLookup /\ whitelist # <<>>)
    => /\ call.result.kind # "Panic"
       /\ call.op = "get_hash_proof" => call.result.kind \in {"Some", "None"}
       /\ call.op = "check_hash_value" => call.result.kind = "Ret"

\* C24 witness: on a tree whose windows are off by one slot a leaf was
\* looked up, followed up two levels and lost without a read outside
C24_Witness ==
  /\ call.op = "get_hash_proof"
  /\ Len(whitelist) = WideWhitelist
  /\ call.test = Claimer(Last(whitelist))
  /\ call.result.kind = "None"

----------------------------------------------------------------------------
(* Properties of claim_nft (Spec) *)

IsClaim == call.op = "claim_nft"

\* the call came after the end of a time window
Late == call.before.nft_time_limit.some
          /\ call.slot_time > call.before.nft_time_limit.val

\* the call got as far as the whitelist condition
AtGate == IsClaim /\ ~Late /\ call.before.next_token_id # nft_limit

LogErrors == {"MintingLogFull", "MintingLogMalformed",
              "MetaDataLogFull", "MetaDataLogMalformed"}

Canonical(node) == get_hash_proof(merkle_tree, Claimer(node))

HasCanonicalProof ==
  Canonical(call.node).kind = "Some" /\ call.proof = Canonical(call.node).proof

Unchanged == /\ next_token_id = call.before.next_token_id
             /\ taken_indexes = call.before.taken_indexes

\* C5: with a whitelist and no reserve a claim succeeds only with the
\* non-empty canonical proof of the claimant, a failed claim mints nothing,
\* and a whitelisted claimant carrying the proof of another whitelisted
\* account is answered AddressNotOnWhitelist
C5_WhitelistGate ==
  (IsClaim /\ merkle_tree.some /\ ~nft_reserve.some)
    => /\ call.result = "Ok" => (call.proof # <<>> /\ HasCanonicalProof)
       /\ call.result # "Ok" => Unchanged
       /\ (/\ AtGate
           /\ Committed(call.node)
           /\ \E other \in Range(whitelist) \ {call.node} :
                 call.proof = MerklePath(whitelist, other))
            => call.result = "AddressNotOnWhitelist"

\* C6: with a whitelist and a reserve r, in sequential mode, a claim made
\* while next_token_id < nft_limit - r passes without a whitelist check;
\* from nft_limit - r on a claim without the canonical proof of the
\* claimant is answered AddressNotOnWhitelist and one with it passes
C6_ReservePhases ==
  (/\ AtGate /\ merkle_tree.some /\ nft_reserve.some /\ ~taken_indexes.some
   /\ nft_reserve.val <= nft_limit)
    => LET start == nft_limit - nft_reserve.val
           passed == call.result \in {"Ok"} \cup LogErrors
       IN /\ call.before.next_token_id < start => passed
          /\ (call.before.next_token_id >= start /\ ~HasCanonicalProof)
               => call.result = "AddressNotOnWhitelist"
          /\ (call.before.next_token_id >= start /\ HasCanonicalProof)
               => passed

\* C7: a contract initialised with an empty whitelist has no tree, and
\* claim_nft never answers AddressNotOnWhitelist
C7_EmptyWhitelist ==
  whitelist = <<>>
    => /\ ~merkle_tree.some
       /\ IsClaim => call.result # "AddressNotOnWhitelist"

\* C7 witness: without a whitelist, in the reserve, account 0 claimed with
\* a non-empty proof and got a token
C7_Witness ==
  /\ whitelist = <<>> /\ IsClaim /\ call.node = 0 /\ call.proof # <<>>
  /\ nft_reserve.some /\ call.result = "Ok"

\* C8 as stated: in sequential mode next_token_id <= nft_limit, a claim
\* succeeds only below the limit, and at the limit every claim is answered
\* NFTLimitReached
C8_SupplyLimit ==
  ~taken_indexes.some
    => /\ next_token_id <= nft_limit
       /\ (IsClaim /\ call.result = "Ok")
            => (call.before.next_token_id < nft_limit
                /\ next_token_id = call.before.next_token_id + 1)
       /\ (IsClaim /\ call.before.next_token_id = nft_limit)
            => call.result = "NFTLimitReached"

\* C8 amended: at the limit a claim is answered NFTLimitReached, unless it
\* comes after the time window, which is answered AirdropNowClosed
C8_SupplyLimitInWindow ==
  ~taken_indexes.some
    => /\ next_token_id <= nft_limit
       /\ (IsClaim /\ call.result = "Ok")
            => (call.before.next_token_id < nft_limit
                /\ next_token_id = call.before.next_token_id + 1)
       /\ (IsClaim /\ call.before.next_token_id = nft_limit)
            => call.result = (IF Late THEN "AirdropNowClosed" ELSE "NFTLimitReached")

\* C8 witness: every token of a limit of two or more is out and the next
\* claim was answered NFTLimitReached
C8_Witness ==
  /\ ~taken_indexes.some /\ IsClaim /\ nft_limit >= 2
  /\ call.before.next_token_id = nft_limit
  /\ call.result = "NFTLimitReached"

\* C9: with a time limit, a claim after the limit is answered
\* AirdropNowClosed whatever else holds, and one at or before the limit
\* never is; without a time limit no claim is answered AirdropNowClosed
C9_TimeWindow ==
  /\ nft_time_limit.some => nft_time_limit.val # 0
  /\ IsClaim
       => IF nft_time_limit.some /\ call.slot_time > nft_time_limit.val
          THEN call.result = "AirdropNowClosed"
          ELSE call.result # "AirdropNowClosed"

\* C9 witness: a claim with the claimant's canonical proof, made after the
\* limit, was answered AirdropNowClosed
C9_Witness ==
  /\ IsClaim /\ nft_time_limit.some /\ call.slot_time > nft_time_limit.val
  /\ merkle_tree.some /\ HasCanonicalProof
  /\ call.before.next_token_id < nft_limit
  /\ call.result = "AirdropNowClosed"

OwnersKept ==
  \A t \in DOMAIN call.before.taken_indexes.val :
     /\ t \in DOMAIN taken_indexes.val
     /\ taken_indexes.val[t] = call.before.taken_indexes.val[t]

SelectsTaken ==
  IsClaim /\ taken_indexes.some
    /\ call.selected_token \in DOMAIN call.before.taken_indexes.val

\* C10 as stated: in selected-index mode a claim of a token that has an
\* owner is answered IndexAlreadyClaimed, and no claim changes an owner
C10_OneShot ==
  /\ (IsClaim /\ taken_indexes.some) => OwnersKept
  /\ SelectsTaken => call.result = "IndexAlreadyClaimed"

\* C10 amended: a claim of a token that has an owner fails and changes
\* nothing; the time window and the whitelist are checked first, so it is
\* answered AirdropNowClosed, AddressNotOnWhitelist or a trap when those
\* checks fail and IndexAlreadyClaimed otherwise; no claim changes an owner
C10_OneShotAfterChecks ==
  /\ (IsClaim /\ taken_indexes.some) => OwnersKept
  /\ SelectsTaken
       => /\ Unchanged
          /\ call.result \in {"IndexAlreadyClaimed", "AirdropNowClosed",
                               "AddressNotOnWhitelist", "Trap"}
          /\ call.result = "AirdropNowClosed" <=> Late
          /\ (~Late /\ ~merkle_tree.some) => call.result = "IndexAlreadyClaimed"
          /\ (~Late /\ ~nft_reserve.some /\ HasCanonicalProof)
               => call.result = "IndexAlreadyClaimed"
          /\ (~Late /\ merkle_tree.some /\ ~nft_reserve.some /\ ~HasCanonicalProof)
               => call.result \in {"AddressNotOnWhitelist", "Trap"}

\* C10 witness: a token owned by one account was claimed by another, which
\* was answered IndexAlreadyClaimed
C10_Witness ==
  /\ SelectsTaken
  /\ call.before.taken_indexes.val[call.selected_token] # call.node
  /\ call.result = "IndexAlreadyClaimed"

----------------------------------------------------------------------------
(* Properties of the view entry points (Spec) *)

\* the accounts an accepted claim minted token t to
MintedTo(t) == {minted[i].owner : i \in {j \in DOMAIN minted : minted[j].token_id = t}}

\* C11: in both modes check_owner(t) answers Some(a) exactly when an
\* accepted claim_nft minted token t to account a, and None exactly when
\* no accepted claim minted token t
C11_OwnerOfMinted ==
  call.op = "check_owner"
    => /\ \A a \in Accounts :
            call.result.address = Some(a) <=> a \in MintedTo(call.params)
       /\ call.result.address = None <=> MintedTo(call.params) = {}

\* C12: in both modes current_supply answers nft_limit minus the number of
\* accepted claims, and total_supply answers nft_limit
C12_SupplyViews ==
  /\ call.op = "current_supply"
       => call.result = [kind |-> "Ret", val |-> nft_limit - Len(minted), wraps |-> FALSE]
  /\ call.op = "total_supply" => call.result = nft_limit

----------------------------------------------------------------------------
(* Properties over every call (PublicSpec) *)

\* C15: with or without a tree, check_hash_value answers true exactly when
\* get_hash_proof answers Some for the same value and false exactly when it
\* answers None, and it answers true for the leaf of every whitelisted
\* account
C15_SameTraversal ==
  call.op = "check_hash_value"
    => LET found == get_hash_proof(merkle_tree, call.test)
       IN /\ call.result = Ret(TRUE) <=> found.kind = "Some"
          /\ call.result = Ret(FALSE) <=> found.kind = "None"
          /\ (\E a \in Range(whitelist) : call.test = Claimer(a))
               => call.result = Ret(TRUE)

\* C16: no call, accepted or rejected, changes merkle_tree: it stays the
\* tree init built from the whitelist, and no tree when the whitelist was
\* empty
C16_TreeNeverMutated ==
  /\ [](merkle_tree = InitTree(whitelist))
  /\ [](whitelist = <<>> => ~merkle_tree.some)
  /\ [][merkle_tree' = merkle_tree]_vars

\* C16 witness: an accepted claim, checked against the whitelist, left the
\* tree in place
C16_Witness ==
  /\ IsClaim /\ call.result = "Ok" /\ merkle_tree.some
  /\ call.proof # <<>> /\ HasCanonicalProof

----------------------------------------------------------------------------
(* Properties of the construction (BuildSpec, FairBuildSpec) *)

Building == call.op = "create_hash_tree"

\* C17: create_hash_tree reaches its return for every list, the empty one
\* included, and leaves no tree for the empty list
C17_Terminates ==
  /\ <>(Building /\ call.status = "Returned")
  /\ [](whitelist = <<>> => ~merkle_tree.some)

RECURSIVE ScanEnd(_, _)
\* end_point of a traversal after k level advances
ScanEnd(tree, k) ==
  IF k = 0 THEN tree.length ELSE ScanEnd(tree, k - 1) + Nth(tree.steps, k - 1)

\* startpoint of a traversal after k level advances, k >= 1
ScanStart(tree, k) == ScanEnd(tree, k - 1)

\* C19: after the k-th level advance of a traversal startpoint is the
\* index at which the construction stored the first node of level k, so
\* that scan offsets and positions in the level have the same parity;
\* stated for the levels that are scanned, those below the root
C19_StepsLocateLevels ==
  (Building /\ call.status = "Returned")
    => \A k \in 1..(Len(call.steps) - 1) :
         /\ ScanStart(merkle_tree.val, k) = call.level_starts[k + 1]
         /\ (ScanStart(merkle_tree.val, k) - call.level_starts[k + 1]) % 2 = 0

\* the number of parent hashes made in the k-th level transition: one for
\* every pair of slots between the start of the level below and the start
\* of the new level
ParentsMade(l, k) == (l.level_starts[k + 1] - l.level_starts[k]) \div 2

\* C21: create_hash_tree records one steps entry per level transition,
\* the number of parents made in it, and that number plus one when it is 2
\* or 3; the last entry is 1, three identities give [3, 1] and six
\* identities give three entries
C21_StepRule ==
  Building
    => /\ Len(call.steps) = Len(call.level_starts) - 1
       /\ \A k \in 1..Len(call.steps) :
            call.steps[k] = IF ParentsMade(call, k) \in {2, 3}
                            THEN ParentsMade(call, k) + 1
                            ELSE ParentsMade(call, k)
       /\ call.status = "Returned"
            => /\ Last(call.steps) = 1
               /\ merkle_tree.val.steps = call.steps
               /\ whitelist = Distinct(3) => call.steps = <<3, 1>>
               /\ whitelist = Distinct(6) => Len(call.steps) = 3

\* C21 witness: the run on six identities has returned, with a widened
\* entry for its three parents and one for its two
C21_Witness ==
  /\ Building /\ call.status = "Returned" /\ whitelist = Distinct(6)
  /\ call.steps = <<4, 3, 1>>

\* the slots a pairing pass is about to read
ToPair(l) == Len(PadBuffer(l.working_vec, l.working_node_total)) - l.startpoint

\* C22: on a non-empty list the loop never reads outside the buffer: at
\* the start of every pairing pass, the last one of a run that aborts
\* included, the number of slots from startpoint to the end of the padded
\* buffer is even and not zero; the leaf level is padded with a copy of
\* the last leaf
C22_PairingWellDefined ==
  (Building /\ whitelist # <<>>)
    => /\ call.initial_length = Len(whitelist) + (Len(whitelist) % 2)
       /\ Nth(call.working_vec, call.initial_length - 1) = Claimer(Last(whitelist))
       /\ call.status \in {"Loop", "Panic"}
            => (ToPair(call) % 2 = 0 /\ ToPair(call) >= 2)

\* C22 witness: a pass is about to start on a buffer of odd length, whose
\* last element is an internal node
C22_Witness ==
  /\ Building /\ call.status = "Loop"
  /\ call.working_node_total % 2 = 1
  /\ call.startpoint > 0

\* the step value the next iteration would push, before its conversion
PendingStep(l) == StepValue(ToPair(l) \div 2)

\* C23 as stated: when the padded leaf count or a step value does not fit
\* a byte the run still completes, storing the value modulo 256
C23_SilentTruncation ==
  Building
    => /\ call.status # "Panic"
       /\ call.status = "Returned"
            => merkle_tree.val.length = call.initial_length % (U8Max + 1)

\* C23 amended: a padded leaf count that does not fit a byte is stored
\* modulo 256 and the run completes; a step value that does not fit a byte
\* aborts the run, which stores no tree; every step stored is the whole
\* value
C23_TruncatesLengthOnly ==
  Building
    => /\ call.status = "Returned"
            => /\ merkle_tree.val.length = call.initial_length % (U8Max + 1)
               /\ \A k \in 1..Len(call.steps) :
                     call.steps[k] <= U8Max
                       /\ call.steps[k] \in {ParentsMade(call, k), ParentsMade(call, k) + 1}
       /\ call.status = "Panic"
            => (PendingStep(call) > U8Max /\ ~merkle_tree.some)

\* C23 witness: a run on a leaf level wider than a byte has returned
C23_Witness ==
  /\ Building /\ call.status = "Returned"
  /\ call.initial_length > U8Max
  /\ merkle_tree.val.length < call.initial_length

----------------------------------------------------------------------------
(* Properties of the supply and of rejected claims (Spec) *)

\* C25: in selected-index mode taken_indexes never has more entries than
\* nft_limit, and current_supply never underflows
C25_SelectedSupplyLimit ==
  taken_indexes.some
    => /\ Cardinality(DOMAIN taken_indexes.val) <= nft_limit
       /\ call.op = "current_supply"
            => (call.result.kind = "Ret" /\ ~call.result.wraps)

\* C26: when claim_nft answers an error (AirdropNowClosed,
\* NFTLimitReached, AddressNotOnWhitelist, IndexAlreadyClaimed, a logging
\* error) or traps, every field of State is what it was before the call
C26_RejectedChangesNothing ==
  (IsClaim /\ call.result # "Ok")
    => /\ State = call.before
       /\ call.result \in {"AirdropNowClosed", "NFTLimitReached",
                            "AddressNotOnWhitelist", "IndexAlreadyClaimed",
                            "Trap"} \cup LogErrors

\* C26 witness: in selected-index mode a claim with the claimant's
\* canonical proof passed every check and failed in the second logger
\* call, after earlier claims had been accepted
C26_Witness ==
  /\ IsClaim /\ call.result = "MetaDataLogFull"
  /\ taken_indexes.some /\ taken_indexes.val # EmptyMap
  /\ merkle_tree.some /\ HasCanonicalProof

====
